---- MODULE Spec2Model ----
(***************************************************************************)
(* Model of the TWT jetting grid firmware (src/src_mcu/src/main.cpp): the  *)
(* control loop, its command dispatcher, the finite state machine with the *)
(* staged upload of a protocol program, and the safety pulse section.      *)
(*                                                                         *)
(* One control-loop iteration is three steps, in the order of loop():      *)
(*   pc = "cmd"    the command dispatcher          (main.cpp 504-652)      *)
(*   pc = "fsm"    fsm.update()                    (main.cpp 688)          *)
(*   pc = "safety" the safety pulse section        (main.cpp 730-755)      *)
(* The clock (millis()) advances between steps.  Host input is whatever    *)
(* the stream listeners deliver at the moment they are polled: each poll   *)
(* draws "nothing" or one token / frame from a small set.                  *)
(***************************************************************************)
EXTENDS Integers, Sequences, FiniteSets, TLC

(***************************************************************************)
(* Bounds of the model                                                     *)
(***************************************************************************)
\* The clock stops at MaxTime [ms] and advances in three steps of ClockStep
\* [ms] each.
MaxTime == 9000
\* At most MaxFrames lines are received in one stay in the Uploading state.
MaxFrames == 2

ClockStep == MaxTime \div 3

(***************************************************************************)
(* Program constants                                                       *)
(***************************************************************************)
MAX_LINES == 5000
P_NULL_VAL == -128
LOADING_TIMEOUT == 4000
CMD_PERIOD == 10
FAILSAFE_DURATION == 1000
\* constants.h is not part of the sources at hand: the axis range follows
\* from BIN_BUF_LEN = 229 = 15 * 15 + 2 + 2 and from the LED at P{-8, -8}
\* lying outside the grid.
PCS_X_MIN == -7
PCS_X_MAX == 7
PCS_Y_MIN == -7
PCS_Y_MAX == 7
PERIOD_SAFETY_PULSES == 50
UINT16 == 65536

LOW == 0
HIGH == 1

(***************************************************************************)
(* Text tokens are sequences of characters, as the stream listener hands   *)
(* them to strcmp() and atoi().                                            *)
(***************************************************************************)
\* "Nothing available" at a poll of the text listener
None == <<"(none)">>

T_upload == <<"u", "p", "l", "o", "a", "d">>
T_play == <<"p", "l", "a", "y">>
T_stop == <<"s", "t", "o", "p">>
T_pause == <<"p", "a", "u", "s", "e">>
T_override_safety ==
    <<"o", "v", "e", "r", "r", "i", "d", "e", "_", "s", "a", "f", "e", "t", "y">>
T_restore_safety ==
    <<"r", "e", "s", "t", "o", "r", "e", "_", "s", "a", "f", "e", "t", "y">>
T_id == <<"i", "d", "?">>
T_comma == <<",">>
T_dot == <<".">>
T_goto == <<"g", "o", "t", "o">>
T_goto2 == <<"g", "o", "t", "o", "2">>
T_goto5000 == <<"g", "o", "t", "o", "5", "0", "0", "0">>
T_goto5001 == <<"g", "o", "t", "o", "5", "0", "0", "1">>
T_goto65536 == <<"g", "o", "t", "o", "6", "5", "5", "3", "6">>
T_preset == <<"p", "r", "e", "s", "e", "t">>
T_Test == <<"T", "e", "s", "t">>
T_AllValvesOpen ==
    <<"A", "l", "l", " ", "v", "a", "l", "v", "e", "s", " ", "o", "p", "e", "n">>

\* Line-count tokens: 0, 1, 2, MAX_LINES + 1 and 2^16
T_0 == <<"0">>
T_1 == <<"1">>
T_2 == <<"2">>
T_5001 == <<"5", "0", "0", "1">>
T_65536 == <<"6", "5", "5", "3", "6">>

CountTokens == {T_0, T_1, T_2, T_5001, T_65536}
SeekTokens == {T_comma, T_dot, T_goto, T_goto2}
CommandTokens ==
    {T_upload, T_play, T_stop, T_pause, T_override_safety, T_restore_safety, T_id}
        \cup SeekTokens \cup {T_preset}
\* What a poll of the text listener can deliver
TextInputs == CommandTokens \cup CountTokens \cup {T_Test}

\* What the upload handler is given as a name
NameTokens == {T_Test, T_stop}

Digits == {"0", "1", "2", "3", "4", "5", "6", "7", "8", "9"}

DigitVal(ch) ==
    CASE ch = "0" -> 0 [] ch = "1" -> 1 [] ch = "2" -> 2 [] ch = "3" -> 3
      [] ch = "4" -> 4 [] ch = "5" -> 5 [] ch = "6" -> 6 [] ch = "7" -> 7
      [] ch = "8" -> 8 [] ch = "9" -> 9

RECURSIVE AtoiDigits(_, _, _)
AtoiDigits(s, i, acc) ==
    IF i > Len(s) \/ s[i] \notin Digits
    THEN acc
    ELSE AtoiDigits(s, i + 1, 10 * acc + DigitVal(s[i]))

\* atoi(): optional sign, then the leading decimal digits; 0 when there are none
atoi(s) ==
    IF s # <<>> /\ s[1] = "-" THEN 0 - AtoiDigits(s, 2, 0)
    ELSE IF s # <<>> /\ s[1] = "+" THEN AtoiDigits(s, 2, 0)
    ELSE AtoiDigits(s, 1, 0)

\* Conversion of an int to uint16_t
ToUint16(v) == v % UINT16

\* The integer that follows the first `pos` characters of a command
parseIntInString(s, pos) ==
    IF Len(s) > pos THEN atoi(SubSeq(s, pos + 1, Len(s))) ELSE 0

\* strncmp(s, prefix, Len(prefix)) == 0
HasPrefix(s, prefix) ==
    Len(s) >= Len(prefix) /\ SubSeq(s, 1, Len(prefix)) = prefix

max(a, b) == IF a >= b THEN a ELSE b
min(a, b) == IF a <= b THEN a ELSE b

(***************************************************************************)
(* Points, lines and their packed form                                     *)
(***************************************************************************)
NUMEL_PCS_AXIS == PCS_X_MAX - PCS_X_MIN + 1

P(x_, y_) == [x |-> x_, y |-> y_]
P_NULL == P(P_NULL_VAL, P_NULL_VAL)
isNull(p) == p.x = P_NULL_VAL \/ p.y = P_NULL_VAL

\* The grid; the points with x + y even carry no valve (main.cpp 192-195)
PCS == {P(x, y) : x \in PCS_X_MIN..PCS_X_MAX, y \in PCS_Y_MIN..PCS_Y_MAX}
ValvePoints == {p \in PCS : (p.x + p.y) % 2 # 0}

N_VALVES == Cardinality(ValvePoints)

\* The point of valve 1..N_VALVES, the valves numbered row by row
valve2p(idx) ==
    LET k == 2 * idx - 1
    IN  P((k % NUMEL_PCS_AXIS) + PCS_X_MIN, (k \div NUMEL_PCS_AXIS) + PCS_Y_MIN)

\* One byte of a frame: upper 4 bits = PCS.x, lower 4 bits = PCS.y, biased
pack_into_byte(p) == ((p.x - PCS_X_MIN) % 16) * 16 + ((p.y - PCS_Y_MIN) % 16)

unpack_byte(b) == P((b \div 16) + PCS_X_MIN, (b % 16) + PCS_Y_MIN)

Pow2(n) == IF n = 0 THEN 1 ELSE 2 ^ n
BitSet(m, b) == (m \div Pow2(b)) % 2 = 1
SetBit(m, b) == IF BitSet(m, b) THEN m ELSE m + Pow2(b)

\* The number of points in front of the first null sentinel
NumPoints(points) ==
    LET nulls == {i \in 1..Len(points) : isNull(points[i])}
    IN  IF nulls = {} THEN Len(points)
        ELSE (CHOOSE i \in nulls : \A j \in nulls : i <= j) - 1

RECURSIVE OrBits(_, _)
OrBits(bits, m) ==
    IF bits = {} THEN m
    ELSE LET b == CHOOSE x \in bits : TRUE
         IN  OrBits(bits \ {b}, SetBit(m, b))

\* Mutant: a point overwrites the element of its row (= for |=), the last
\* point of a row is the one that stays
pack_Assign(points) ==
    LET n == NumPoints(points)
    IN  [row \in 0..(NUMEL_PCS_AXIS - 1) |->
            LET in_row == {j \in 1..n : points[j].y - PCS_Y_MIN = row}
            IN  IF in_row = {} THEN 0
                ELSE LET last == CHOOSE j \in in_row : \A k \in in_row : k <= j
                     IN  Pow2(points[last].x - PCS_X_MIN)]

\* Pack the points of a line up to its null sentinel: bit (x - PCS_X_MIN) of
\* element (y - PCS_Y_MIN) is set for every point (x, y)
pack(points) ==
    LET n == NumPoints(points)
    IN  [row \in 0..(NUMEL_PCS_AXIS - 1) |->
            OrBits({points[i].x - PCS_X_MIN :
                       i \in {j \in 1..n : points[j].y - PCS_Y_MIN = row}}, 0)]

\* The points a packed line stands for: one point per set bit
unpack_set(packed) ==
    {P(rb[2] + PCS_X_MIN, rb[1] + PCS_Y_MIN) :
        rb \in {q \in (DOMAIN packed) \X (0..(NUMEL_PCS_AXIS - 1)) :
                   BitSet(packed[q[1]], q[2])}}

(***************************************************************************)
(* Binary frames.  A frame is the bytes in front of the end-of-line        *)
(* sentinel; the empty frame is the end-of-program sentinel.               *)
(***************************************************************************)
NoFrame == <<-1>>
Overrun == <<-2>>

F_EOP == <<>>
\* 500 ms, point (0, 1)
F_500 == <<1, 244, 120>>
\* A frame of one byte only
F_short == <<2>>

DataFrames == {F_500, F_short}
BinInputs == DataFrames \cup {F_EOP}

\* The first bytes of bin_buf; the listener writes a frame over the front of
\* the buffer and leaves the rest as it was
BinBufLen == 4
receive(bin_buf, frame) ==
    [i \in 1..BinBufLen |-> IF i <= Len(frame) THEN frame[i] ELSE bin_buf[i]]

(***************************************************************************)
(* The controller context: every global of main.cpp the model follows, the *)
(* members of protocol_mgr, cp_mgr and fsm, and (obs_...) what the serial  *)
(* port has reported and the handlers have done since the last entry into  *)
(* the Uploading state.                                                    *)
(***************************************************************************)
VARIABLES now, pc, ctx

vars == <<now, pc, ctx>>

Inc(n) == IF n < 2 THEN n + 1 ELSE 2

\* The program the preset of setup() holds
Preset0 ==
    <<[duration |-> 2000, packed |-> pack(<<P(0, 1), P_NULL>>)],
      [duration |-> 4000, packed |-> pack(<<P(1, 0), P(1, 2), P_NULL>>)]>>
PresetPrograms == {Preset0}

ctx0(preset) ==
    [fsm_current |-> "Off", fsm_next |-> "Off", stateChangeTime |-> 0,
     needToTriggerEnter |-> TRUE,
     loading_program |-> FALSE, loading_stage |-> 0,
     loading_successful |-> FALSE, promised_N_lines |-> 0,
     returned |-> FALSE,
     name |-> T_preset, program |-> preset,
     pos |-> -1, tick |-> 0,
     masks |-> {},
     bin_buf |-> [i \in 1..BinBufLen |-> 0],
     override_pump_safety |-> FALSE,
     safety__allow_jetting_pump_to_run |-> FALSE,
     toggler |-> FALSE, pin |-> LOW,
     cmd_prev |-> -1, pulse_prev |-> -1,
     halted |-> FALSE,
     obs_report |-> "none", obs_sentN |-> -1,
     obs_nName |-> 0, obs_nFrames |-> 0, obs_nEop |-> 0, obs_nTimeout |-> 0,
     obs_nCmd |-> 0, obs_nExt |-> 0, obs_nPrime |-> 0, obs_nInstall |-> 0,
     obs_exit_N_lines |-> -1,
     obs_stop |-> {}, obs_entered |-> 0,
     obs_reports |-> {}, obs_eopMismatch |-> FALSE,
     obs_frames |-> <<>>, obs_overrun |-> FALSE,
     obs_nText |-> 0, obs_nBin |-> 0, obs_upd |-> "none",
     obs_p |-> P_NULL, obs_line |-> [duration |-> 0, points |-> <<P_NULL>>],
     obs_cmd |-> None]

(***************************************************************************)
(* protocol_mgr                                                            *)
(***************************************************************************)
get_N_lines(c) == Len(c.program)

clear(c) ==
    [c EXCEPT !.program = <<>>, !.name = <<>>, !.pos = -1, !.obs_upd = "none"]

set_name(c, str) == [c EXCEPT !.name = str]

\* Mutant: the line is appended without a look at the capacity
add_line_Unchecked(c, line) ==
    [c EXCEPT !.program =
        Append(@, [duration |-> line.duration, packed |-> pack(line.points)])]

\* Pack a line and append it; a full store takes no further line
add_line(c, line) ==
    IF Len(c.program) >= MAX_LINES
    THEN c
    ELSE [c EXCEPT !.program =
             Append(@, [duration |-> line.duration, packed |-> pack(line.points)])]

prime_start(c) ==
    [c EXCEPT !.pos = -1, !.obs_nPrime = Inc(@), !.obs_upd = "none"]

halt(c) == [c EXCEPT !.halted = TRUE, !.masks = {}]

\* Activate line `idx` (from 0): its points go to the valves
activate(c, idx, t) ==
    [c EXCEPT !.pos = idx, !.tick = t,
              !.masks = unpack_set(c.program[idx + 1].packed)]

\* obs_upd: what the last update did
update(c, t) ==
    IF Len(c.program) = 0 THEN halt(c)
    ELSE IF c.pos = -1 THEN [activate(c, 0, t) EXCEPT !.obs_upd = "first"]
    ELSE IF t - c.tick >= c.program[c.pos + 1].duration
         THEN [activate(c, (c.pos + 1) % Len(c.program), t) EXCEPT
                  !.obs_upd = IF c.pos + 1 = Len(c.program)
                              THEN "wrap" ELSE "next"]
         ELSE [c EXCEPT !.obs_upd = "hold"]

\* Manual seeks: clamped into the program, activated at once.  A store
\* without lines has no line to get: the fatal fault.
goto_line(c, line_no, t) ==
    IF Len(c.program) = 0 THEN halt(c)
    ELSE [activate(c, min(line_no, Len(c.program) - 1), t) EXCEPT
             !.obs_upd = "none"]

goto_next_line(c, t) == goto_line(c, c.pos + 1, t)

goto_prev_line(c, t) == goto_line(c, max(c.pos - 1, 0), t)

\* The preset of setup() is loaded again
load_protocol_preset(c, idx_preset) ==
    prime_start([clear(c) EXCEPT !.name = T_preset, !.program = Preset0])

(***************************************************************************)
(* fsm: FiniteStateMachine.  transitionTo() only records the next state;   *)
(* the exit and enter handlers run in the next fsm.update().               *)
(***************************************************************************)
transitionTo(c, state, t) ==
    [c EXCEPT !.fsm_next = state, !.stateChangeTime = t]

timeInCurrentState(c, t) == t - c.stateChangeTime

\* EVERY_N_MILLIS(period): a static timer, constructed (and its previous
\* trigger set to the time) when the statement is first reached
everyN(prev, period, t) ==
    IF prev = -1 THEN [ready |-> period <= 0, prev |-> t]
    ELSE IF t - prev >= period THEN [ready |-> TRUE, prev |-> t]
    ELSE [ready |-> FALSE, prev |-> prev]

\* Serial.println() of one of the upload's reports
report(c, what) ==
    [c EXCEPT !.obs_report = what, !.obs_reports = @ \cup {what}]

(***************************************************************************)
(* FSM: Off, Paused, Running                                               *)
(***************************************************************************)
\* Mutant: entering Off also takes the safety override back
FSM_fun_off__ent_Restores(c) ==
    [c EXCEPT !.masks = {}, !.override_pump_safety = FALSE]

FSM_fun_off__ent(c) == [c EXCEPT !.masks = {}]

\* Mutant: the Running state does not call the protocol update
FSM_fun_running__upd_Idle(c, t) == c

FSM_fun_running__upd(c, t) == update(c, t)

(***************************************************************************)
(* FSM: Uploading                                                          *)
(***************************************************************************)
FSM_fun_uploading__ent(c) ==
    [clear(c) EXCEPT
        !.loading_program = TRUE, !.loading_stage = 0,
        !.loading_successful = FALSE,
        !.obs_report = "none", !.obs_reports = {}, !.obs_sentN = -1,
        !.obs_nName = 0, !.obs_nFrames = 0, !.obs_nEop = 0,
        !.obs_nTimeout = 0, !.obs_nCmd = 0, !.obs_nExt = 0,
        !.obs_nPrime = 0, !.obs_nInstall = 0, !.obs_exit_N_lines = -1,
        !.obs_eopMismatch = FALSE, !.obs_stop = {},
        !.obs_frames = <<>>,
        !.obs_entered = Inc(@)]

\* Mutant: a `stop` given to stage 0 cancels the upload
UploadStage0_StopCancels(c, tok) ==
    IF c.loading_stage = 0 /\ tok = T_stop
    THEN [c EXCEPT !.fsm_next = "Off", !.loading_program = FALSE,
             !.obs_stop = @ \cup {0}]
    ELSE IF c.loading_stage = 0 /\ tok # None
    THEN [set_name(c, tok) EXCEPT !.loading_stage = 1, !.obs_nName = Inc(@),
             !.obs_nText = @ + 1]
    ELSE c

\* Stage 0: the name of the protocol program
UploadStage0(c, tok) ==
    IF c.loading_stage = 0 /\ tok # None
    THEN [set_name(c, tok) EXCEPT !.loading_stage = 1,
             !.obs_nName = Inc(@), !.obs_nText = @ + 1,
             !.obs_stop = IF tok = T_stop THEN @ \cup {0} ELSE @]
    ELSE c

\* Stage 1: the number of lines that follow
UploadStage1(c, tok, t) ==
    IF c.loading_stage = 1 /\ tok # None
    THEN LET c1 == [c EXCEPT !.promised_N_lines = ToUint16(atoi(tok)),
                             !.obs_sentN = atoi(tok), !.obs_nText = @ + 1,
                             !.obs_stop =
                                 IF tok = T_stop THEN @ \cup {1} ELSE @]
         IN  IF c1.promised_N_lines > MAX_LINES
             THEN [transitionTo(report(c1, "capacity"), "Off", t) EXCEPT
                      !.loading_program = FALSE, !.returned = TRUE]
             ELSE [c1 EXCEPT !.loading_stage = 2]
    ELSE c

\* Mutant: the coordinates are read from the second byte on
ParseLine_FromSecondByte(bin_buf, data_len) ==
    [duration |-> bin_buf[1] * 256 + bin_buf[2],
     points |-> [i \in 1..(IF data_len > 2 THEN data_len - 2 ELSE 0) |->
                    unpack_byte(bin_buf[i + 1])] \o <<P_NULL>>]

\* The line a non-empty frame of data_len bytes decodes to
ParseLine(bin_buf, data_len) ==
    [duration |-> bin_buf[1] * 256 + bin_buf[2],
     points |-> [i \in 1..(IF data_len > 2 THEN data_len - 2 ELSE 0) |->
                    unpack_byte(bin_buf[i + 2])] \o <<P_NULL>>]

\* The end-of-program sentinel was found
UploadEop(c, t) ==
    LET c1 == [c EXCEPT !.obs_nEop = Inc(@),
                  !.obs_eopMismatch = @ \/ (get_N_lines(c) # c.obs_sentN)]
    IN  IF get_N_lines(c1) # c1.promised_N_lines
        THEN [transitionTo(report(c1, "mismatch"), "Off", t) EXCEPT
                 !.loading_program = FALSE, !.returned = TRUE]
        ELSE [transitionTo(report(c1, "success"), "Off", t) EXCEPT
                 !.loading_successful = TRUE, !.loading_program = FALSE,
                 !.returned = TRUE]

\* Mutant: a frame too short to hold a coordinate is dropped
UploadStage2_SkipShort(c, f, t) ==
    IF c.loading_stage # 2 \/ c.returned THEN c
    ELSE IF f = Overrun
         THEN [halt(c) EXCEPT !.returned = TRUE, !.obs_overrun = TRUE]
    ELSE IF f = NoFrame THEN c
    ELSE LET c1 == [c EXCEPT !.bin_buf = receive(@, f), !.obs_nBin = @ + 1]
         IN  IF Len(f) = 0 THEN UploadEop(c1, t)
             ELSE IF Len(f) < 3
                  THEN [c1 EXCEPT !.obs_nFrames = @ + 1,
                                  !.obs_frames = Append(@, f)]
             ELSE [add_line(c1, ParseLine(c1.bin_buf, Len(f))) EXCEPT
                      !.obs_nFrames = @ + 1, !.obs_frames = Append(@, f)]

\* Mutant: a buffer overrun is taken for "nothing available"
UploadStage2_OverrunIgnored(c, f, t) ==
    IF c.loading_stage # 2 \/ c.returned THEN c
    ELSE IF f = Overrun THEN [c EXCEPT !.obs_overrun = TRUE]
    ELSE IF f = NoFrame THEN c
    ELSE LET c1 == [c EXCEPT !.bin_buf = receive(@, f), !.obs_nBin = @ + 1]
         IN  IF Len(f) = 0 THEN UploadEop(c1, t)
             ELSE [add_line(c1, ParseLine(c1.bin_buf, Len(f))) EXCEPT
                      !.obs_nFrames = @ + 1, !.obs_frames = Append(@, f)]

\* Stage 2: the protocol program, line by line
UploadStage2(c, f, t) ==
    IF c.loading_stage # 2 \/ c.returned THEN c
    ELSE IF f = Overrun
         THEN [halt(c) EXCEPT !.returned = TRUE, !.obs_overrun = TRUE]
    ELSE IF f = NoFrame THEN c
    ELSE LET c1 == [c EXCEPT !.bin_buf = receive(@, f), !.obs_nBin = @ + 1]
         IN  IF Len(f) = 0 THEN UploadEop(c1, t)
             ELSE [add_line(c1, ParseLine(c1.bin_buf, Len(f))) EXCEPT
                      !.obs_nFrames = @ + 1, !.obs_frames = Append(@, f)]

\* Time-out check
UploadTimeout(c, t) ==
    IF ~c.returned /\ timeInCurrentState(c, t) > LOADING_TIMEOUT
    THEN [transitionTo(report(c, "timeout"), "Off", t) EXCEPT
             !.loading_program = FALSE, !.obs_nTimeout = Inc(@)]
    ELSE c

\* `returned` is the handler's own position: set by a return in front of
\* the time-out check, and gone when the handler is left
FSM_fun_uploading__upd(c, t, a, b, f) ==
    [UploadTimeout(
        UploadStage2(UploadStage1(UploadStage0(c, a), b, t), f, t), t)
     EXCEPT !.returned = FALSE]

\* The fail-safe line: every valve open
FailSafeLine ==
    [duration |-> FAILSAFE_DURATION,
     points |-> [i \in 1..N_VALVES |-> valve2p(i)] \o <<P_NULL>>]

InstallFailSafe(c) ==
    [add_line(set_name(clear(c), T_AllValvesOpen), FailSafeLine) EXCEPT
        !.obs_nInstall = Inc(@)]

FSM_fun_uploading__ext(c) ==
    LET c1 == IF ~c.loading_successful THEN InstallFailSafe(c) ELSE c
        c2 == prime_start(c1)
    IN  [c2 EXCEPT !.obs_nExt = Inc(@), !.obs_exit_N_lines = get_N_lines(c2)]

(***************************************************************************)
(* fsm.update()                                                            *)
(***************************************************************************)
StateEnter(c, state) ==
    CASE state = "Off" -> FSM_fun_off__ent(c)
      [] state = "Uploading" -> FSM_fun_uploading__ent(c)
      [] OTHER -> c

StateExit(c, state) ==
    IF state = "Uploading" THEN FSM_fun_uploading__ext(c) ELSE c

StateUpdate(c, t, a, b, f) ==
    CASE c.fsm_current = "Running" -> FSM_fun_running__upd(c, t)
      [] c.fsm_current = "Uploading" -> FSM_fun_uploading__upd(c, t, a, b, f)
      [] OTHER -> c

immediateTransitionTo(c, state, t) ==
    LET c1 == StateExit(c, c.fsm_current)
        c2 == [c1 EXCEPT !.fsm_current = state, !.fsm_next = state]
    IN  [StateEnter(c2, state) EXCEPT !.stateChangeTime = t]

fsm_update(c, t, a, b, f) ==
    IF c.needToTriggerEnter
    THEN [StateEnter(c, c.fsm_current) EXCEPT !.needToTriggerEnter = FALSE]
    ELSE LET c1 == IF c.fsm_current # c.fsm_next
                   THEN immediateTransitionTo(c, c.fsm_next, t)
                   ELSE c
         IN  StateUpdate(c1, t, a, b, f)

\* What the listeners are asked for in this fsm.update(): an input that is
\* not polled is not delivered
Polled(c, t, a, b, f) ==
    IF c.needToTriggerEnter \/ c.fsm_next # "Uploading"
    THEN a = None /\ b = None /\ f = NoFrame
    ELSE LET c0 == IF c.fsm_current # c.fsm_next
                   THEN immediateTransitionTo(c, c.fsm_next, t)
                   ELSE c
             c1 == UploadStage0(c0, a)
             c2 == UploadStage1(c1, b, t)
         IN  /\ a # None => c0.loading_stage = 0
             /\ b # None => c1.loading_stage = 1
             /\ f # NoFrame => c2.loading_stage = 2 /\ ~c2.returned
             /\ f \in DataFrames => Len(c2.program) < MaxFrames

(***************************************************************************)
(* loop(): the command dispatcher                                          *)
(***************************************************************************)
\* A command is taken from the text listener only outside an upload and
\* when the 10 ms timer of the dispatcher is ready
DispatcherPolls(c, t) ==
    ~c.loading_program /\ everyN(c.cmd_prev, CMD_PERIOD, t).ready

\* Mutant: the line number of the host, which starts at 1, is passed on as
\* it is
CmdGoto_OneBased(c, str_cmd, t) ==
    LET tmp_int == ToUint16(max(parseIntInString(str_cmd, 4), 1))
    IN  goto_line(c, ToUint16(tmp_int), t)

\* goto <n>: the line index of the host starts at 1
CmdGoto(c, str_cmd, t) ==
    LET tmp_int == ToUint16(max(parseIntInString(str_cmd, 4), 1))
    IN  goto_line(c, ToUint16(tmp_int - 1), t)

Command(c, str_cmd, t) ==
    CASE str_cmd = T_upload -> transitionTo(c, "Uploading", t)
      [] str_cmd = T_play -> transitionTo(c, "Running", t)
      [] str_cmd = T_stop -> transitionTo(c, "Off", t)
      [] str_cmd = T_pause -> transitionTo(c, "Paused", t)
      [] str_cmd = T_comma -> goto_prev_line(c, t)
      [] str_cmd = T_dot -> goto_next_line(c, t)
      [] HasPrefix(str_cmd, T_goto) -> CmdGoto(c, str_cmd, t)
      [] HasPrefix(str_cmd, T_preset) ->
            load_protocol_preset(c, ToUint16(max(parseIntInString(str_cmd, 6), 0)))
      [] str_cmd = T_override_safety -> [c EXCEPT !.override_pump_safety = TRUE]
      [] str_cmd = T_restore_safety -> [c EXCEPT !.override_pump_safety = FALSE]
      [] OTHER -> c

\* The upload has been entered and its exit handler has not run yet
UploadOpen(c) == c.fsm_current = "Uploading" /\ ~c.needToTriggerEnter

Dispatch(c, t, tok) ==
    IF c.loading_program THEN c
    ELSE LET g == everyN(c.cmd_prev, CMD_PERIOD, t)
             c1 == [c EXCEPT !.cmd_prev = g.prev]
         IN  IF ~g.ready \/ tok = None THEN c1
             ELSE [Command(c1, tok, t) EXCEPT
                      !.obs_nText = @ + 1,
                      !.obs_nCmd = IF UploadOpen(c) THEN Inc(@) ELSE @]

(***************************************************************************)
(* loop(): the safety pulses                                               *)
(***************************************************************************)
all_masks_are_zero(c) == c.masks = {}

\* Mutant: only the override enables the pump
SafetyCheck_IgnoresMasks(c) ==
    [c EXCEPT !.safety__allow_jetting_pump_to_run = c.override_pump_safety]

SafetyCheck(c) ==
    IF c.override_pump_safety
    THEN [c EXCEPT !.safety__allow_jetting_pump_to_run = TRUE]
    ELSE IF all_masks_are_zero(c)
         THEN [c EXCEPT !.safety__allow_jetting_pump_to_run = FALSE]
         ELSE [c EXCEPT !.safety__allow_jetting_pump_to_run = TRUE]

\* Mutant: the output is driven low while the pump is not allowed to run
SafetyPulse_DrivesLow(c, t) ==
    IF c.safety__allow_jetting_pump_to_run
    THEN LET g == everyN(c.pulse_prev, PERIOD_SAFETY_PULSES \div 2, t)
         IN  IF g.ready
             THEN [c EXCEPT !.pulse_prev = g.prev, !.toggler = ~@,
                            !.pin = IF ~c.toggler THEN HIGH ELSE LOW]
             ELSE [c EXCEPT !.pulse_prev = g.prev]
    ELSE [c EXCEPT !.pin = LOW]

\* Mutant: the pulses are sent whether or not the pump is allowed to run
SafetyPulse_Unconditional(c, t) ==
    LET g == everyN(c.pulse_prev, PERIOD_SAFETY_PULSES \div 2, t)
    IN  IF g.ready
        THEN [c EXCEPT !.pulse_prev = g.prev, !.toggler = ~@,
                       !.pin = IF ~c.toggler THEN HIGH ELSE LOW]
        ELSE [c EXCEPT !.pulse_prev = g.prev]

SafetyPulse(c, t) ==
    IF c.safety__allow_jetting_pump_to_run
    THEN LET g == everyN(c.pulse_prev, PERIOD_SAFETY_PULSES \div 2, t)
         IN  IF g.ready
             THEN [c EXCEPT !.pulse_prev = g.prev, !.toggler = ~@,
                            !.pin = IF ~c.toggler THEN HIGH ELSE LOW]
             ELSE [c EXCEPT !.pulse_prev = g.prev]
    ELSE c

(***************************************************************************)
(* The state machine                                                       *)
(***************************************************************************)
Init ==
    /\ now = 0
    /\ pc = "cmd"
    /\ \E preset \in PresetPrograms : ctx = ctx0(preset)

\* millis() advances; one iteration of loop() is short against ClockStep
Tick ==
    /\ pc = "cmd"
    /\ now + ClockStep <= MaxTime
    /\ now' = now + ClockStep
    /\ UNCHANGED <<pc, ctx>>

\* The dispatcher handles no command: an upload is loading, its timer is
\* not ready, or no command is available
CmdNone ==
    /\ pc = "cmd"
    /\ ctx' = Dispatch(ctx, now, None)
    /\ pc' = "fsm"
    /\ UNCHANGED now

DoCommand(tok) ==
    /\ pc = "cmd"
    /\ DispatcherPolls(ctx, now)
    /\ ctx' = Dispatch(ctx, now, tok)
    /\ pc' = IF ctx'.halted THEN "halted" ELSE "fsm"
    /\ UNCHANGED now

CmdUpload == DoCommand(T_upload)
CmdPlay == DoCommand(T_play)
CmdStop == DoCommand(T_stop)
CmdPause == DoCommand(T_pause)
CmdOverrideSafety == DoCommand(T_override_safety)
CmdRestoreSafety == DoCommand(T_restore_safety)
\* ',' and '.' and goto: the manual seeks
CmdSeek ==
    \E tok \in SeekTokens : DoCommand(tok)
CmdPreset == DoCommand(T_preset)
\* A report command, or a line that is no command at all
CmdOther ==
    \E tok \in {T_id, T_Test, T_1} : DoCommand(tok)

\* fsm.update(), with what the listeners deliver to the upload handler
FsmUpdate ==
    /\ pc = "fsm"
    /\ \E a \in NameTokens \cup {None}, b \in CountTokens \cup {T_stop, None},
          f \in BinInputs \cup {NoFrame} :
          /\ Polled(ctx, now, a, b, f)
          /\ ctx' = fsm_update(ctx, now, a, b, f)
    /\ pc' = IF ctx'.halted THEN "halted" ELSE "safety"
    /\ UNCHANGED now

\* The binary listener reports a buffer overrun to the upload handler
FsmUpdateOverrun ==
    /\ pc = "fsm"
    /\ ~ctx.needToTriggerEnter
    /\ ctx.fsm_current = "Uploading" /\ ctx.fsm_next = "Uploading"
    /\ ctx.loading_stage = 2
    /\ ctx' = fsm_update(ctx, now, None, None, Overrun)
    /\ pc' = IF ctx'.halted THEN "halted" ELSE "safety"
    /\ UNCHANGED now

\* The last section of loop(): the iteration ends, and with it the count of
\* what this iteration took from the listeners
SafetyPulses ==
    /\ pc = "safety"
    /\ ctx' = [SafetyPulse(SafetyCheck(ctx), now) EXCEPT
                  !.obs_nText = 0, !.obs_nBin = 0]
    /\ pc' = "cmd"
    /\ UNCHANGED now

Next ==
    \/ Tick
    \/ CmdNone
    \/ CmdUpload
    \/ CmdPlay
    \/ CmdStop
    \/ CmdPause
    \/ CmdOverrideSafety
    \/ CmdRestoreSafety
    \/ CmdSeek
    \/ CmdPreset
    \/ CmdOther
    \/ FsmUpdate
    \/ FsmUpdateOverrun
    \/ SafetyPulses

Spec == Init /\ [][Next]_vars

TypeOK ==
    /\ now \in 0..MaxTime
    /\ pc \in {"cmd", "fsm", "safety", "halted"}
    /\ ctx.fsm_current \in {"Off", "Paused", "Running", "Uploading"}
    /\ ctx.loading_stage \in 0..2
    /\ ctx.promised_N_lines \in 0..(UINT16 - 1)

(***************************************************************************)
(* Claims                                                                  *)
(***************************************************************************)
FailureReports == {"capacity", "mismatch", "timeout"}

\* The store holds exactly the fail-safe program
IsFailSafe(c) ==
    /\ Len(c.program) = 1
    /\ c.name = T_AllValvesOpen
    /\ c.program[1].duration = FAILSAFE_DURATION
    /\ unpack_set(c.program[1].packed) = ValvePoints

\* Since its entry the upload took one name, one count N within capacity,
\* N non-empty frames and one end-of-program frame, and nothing else
\* happened: no time-out, no command handled by the dispatcher
CleanUpload(c) ==
    /\ c.obs_entered >= 1
    /\ c.obs_nName = 1
    /\ c.obs_sentN \in 0..MAX_LINES
    /\ c.obs_nFrames = c.obs_sentN
    /\ c.obs_nEop = 1
    /\ c.obs_nTimeout = 0
    /\ c.obs_nCmd = 0

\* C1: an upload of the name, the count N <= MAX_LINES, exactly N non-empty
\* frames and the end-of-program frame, all before the deadline, reports
\* success (loading_successful), and the store holds N lines when the upload
\* exits.
C1_CleanUploadSucceeds ==
    CleanUpload(ctx) =>
        /\ ctx.obs_reports = {"success"}
        /\ ctx.loading_successful
        /\ ctx.obs_nExt >= 1 => ctx.obs_exit_N_lines = ctx.obs_sentN

C1_Witness ==
    /\ CleanUpload(ctx)
    /\ ctx.obs_sentN = MaxFrames
    /\ ctx.obs_nExt = 1
    /\ ctx.obs_exit_N_lines = MaxFrames

\* C2: when the end-of-program frame is consumed while the number of stored
\* lines differs from the promised N, the upload fails with a count-mismatch
\* report and never reports success.
C2_EopMismatchFails ==
    ctx.obs_eopMismatch =>
        /\ "mismatch" \in ctx.obs_reports
        /\ "success" \notin ctx.obs_reports
        /\ ~ctx.loading_successful

\* C3: a line-count token with a value N > MAX_LINES gets the capacity error
\* and the upload fails at once: it never reaches the stage that receives
\* lines.
C3_OverCapacityRejected ==
    ctx.obs_sentN > MAX_LINES =>
        /\ "capacity" \in ctx.obs_reports
        /\ ctx.loading_stage # 2
        /\ ctx.obs_nFrames = 0

\* C4: an update of an upload that has not completed, made when the time
\* since entry exceeds the deadline, forces the upload to Failed with the
\* time-out report (unless the controller halts).
C4_DeadlineForcesTimeout ==
    [][(/\ pc = "fsm"
        /\ UploadOpen(ctx)
        /\ ctx.fsm_next = "Uploading"
        /\ ctx.loading_program
        /\ timeInCurrentState(ctx, now) > LOADING_TIMEOUT)
       => (\/ ctx'.halted
           \/ /\ ctx'.obs_report = "timeout"
              /\ ~ctx'.loading_program
              /\ ~ctx'.loading_successful
              /\ ctx'.fsm_next = "Off")]_vars

\* C5: after an upload that ended Failed, once the exit action has run the
\* store holds exactly the fail-safe program.
C5_FailedLeavesFailSafe ==
    [][(/\ UploadOpen(ctx)
        /\ ~UploadOpen(ctx')
        /\ ctx.obs_report \in FailureReports)
       => IsFailSafe(ctx')]_vars

\* C6: the exit action of an upload runs exactly once (one prime_start, on
\* failure one installation of the fail-safe program), and it runs before
\* the dispatcher handles any command again.
C6_ExitOnceBeforeDispatch ==
    /\ ctx.obs_nCmd = 0
    /\ ctx.obs_nExt <= 1
    /\ (ctx.obs_entered >= 1 /\ ~UploadOpen(ctx)) =>
          /\ ctx.obs_nExt = 1
          /\ ctx.obs_nPrime = 1
          /\ ctx.obs_nInstall = IF ctx.loading_successful THEN 0 ELSE 1

\* C7 as claimed: a `stop` received during an upload cancels it, the upload
\* ends Failed.
C7_StopCancels ==
    ctx.obs_stop # {} =>
        /\ ~ctx.loading_program
        /\ ~ctx.loading_successful
        /\ ctx.obs_reports # {"success"}

\* C7: a `stop` received during an upload does not cancel it (the name is
\* looked at while no command has been handled since the upload's entry).  The upload
\* takes it as data, as the program name in stage 0 and as a line count of 0
\* in stage 1, and goes on to the next stage; the upload ends only with one
\* of its reports (time-out, capacity, count mismatch, success).
C7_StopIsData ==
    (UploadOpen(ctx) /\ ctx.obs_stop # {}) =>
        /\ (0 \in ctx.obs_stop /\ ctx.obs_nCmd = 0) =>
              ctx.name = T_stop /\ ctx.loading_stage >= 1
        /\ 1 \in ctx.obs_stop =>
              ctx.promised_N_lines = 0 /\ ctx.loading_stage = 2
        /\ ~ctx.loading_program => ctx.obs_reports # {}

C7_Witness ==
    /\ UploadOpen(ctx)
    /\ ctx.obs_stop = {0, 1}
    /\ ctx.loading_program
    /\ ctx.obs_nFrames = 1

\* C8: at the end of the safety section of every iteration, pump_enable
\* equals override OR (some valve mask is nonzero).
C8_PumpEnable ==
    pc = "cmd" =>
        (ctx.safety__allow_jetting_pump_to_run
            <=> (ctx.override_pump_safety \/ ctx.masks # {}))

C8_Witness ==
    /\ pc = "cmd"
    /\ ctx.safety__allow_jetting_pump_to_run
    /\ ~ctx.override_pump_safety
    /\ ctx.masks # {}

\* C9 as claimed: at the end of every iteration in which pump_enable is
\* false the safety pulse output is low.
C9_LowWhenDisabled ==
    (pc = "cmd" /\ ~ctx.safety__allow_jetting_pump_to_run) => ctx.pin = LOW

\* C9: at the end of every iteration in which pump_enable is false the
\* safety pulse output is at the level the last toggle wrote (low before the
\* first toggle): it is left there, not driven low.
C9_HoldsLastLevel ==
    (pc = "cmd" /\ ~ctx.safety__allow_jetting_pump_to_run) =>
        ctx.pin = IF ctx.toggler THEN HIGH ELSE LOW

C9_Witness ==
    /\ pc = "cmd"
    /\ ~ctx.safety__allow_jetting_pump_to_run
    /\ ctx.toggler
    /\ ctx.pin = HIGH

\* C10: the safety pulse output changes level only in the safety section of
\* an iteration in which pump_enable is true; with the override off and all
\* valve masks zero it is not toggled.
C10_TogglesOnlyWhenEnabled ==
    [][/\ ctx'.pin # ctx.pin =>
             pc = "safety" /\ ctx'.safety__allow_jetting_pump_to_run
       /\ (pc = "safety" /\ ~ctx.override_pump_safety /\ ctx.masks = {}) =>
             ctx'.pin = ctx.pin /\ ctx'.toggler = ctx.toggler]_vars

C10_Witness ==
    /\ pc = "cmd"
    /\ ~ctx.safety__allow_jetting_pump_to_run
    /\ ~ctx.override_pump_safety
    /\ ctx.masks = {}
    /\ ctx.pulse_prev # -1
    /\ ctx.pin = LOW
    /\ ctx.fsm_current = "Off"

(***************************************************************************)
(* Claims on the playback, the overrun and the order of the work           *)
(***************************************************************************)
\* The line a frame is stored as: the duration of its first two bytes, the
\* points of the bytes that follow
FrameStored(f, l) ==
    /\ Len(f) >= 2 => l.duration = 256 * f[1] + f[2]
    /\ unpack_set(l.packed) = {unpack_byte(f[i]) : i \in 3..Len(f)}

\* The store holds the frames received since the upload's entry, one line
\* per frame, in the order of arrival
StoredAsReceived(c) ==
    /\ Len(c.program) = Len(c.obs_frames)
    /\ \A i \in 1..Len(c.obs_frames) : FrameStored(c.obs_frames[i], c.program[i])

\* C13: after the exit of an upload, the first protocol update that runs
\* (no seek in between) activates line 0: the position is 0, the activation
\* time is the time of the update and the valves of line 0 are open.
C13_FirstUpdateActivatesLine0 ==
    [][(/\ pc = "fsm"
        /\ ~ctx.needToTriggerEnter
        /\ ctx.fsm_next = "Running"
        /\ ctx.obs_entered >= 1
        /\ UploadOpen(ctx) \/ ctx.pos = -1)
       => (/\ ctx'.pos = 0
           /\ ctx'.tick = now
           /\ ctx'.masks = unpack_set(ctx'.program[1].packed))]_vars

\* C16: when the binary listener reports an overrun to an upload, the
\* controller halts: that update appends no line, gives no report and leaves
\* the outcome open; nothing runs after it; and the store holds the frames
\* received before it, each as one line, in arrival order.
C16_OverrunHalts ==
    /\ [](ctx.obs_overrun =>
            /\ pc = "halted" /\ ctx.halted /\ ctx.masks = {}
            /\ ctx.obs_nCmd = 0 =>
                  /\ ctx.loading_program /\ ~ctx.loading_successful
                  /\ ctx.fsm_next = "Uploading" /\ ctx.obs_reports = {}
                  /\ StoredAsReceived(ctx))
    /\ [][ctx'.obs_overrun =>
             /\ ctx'.program = ctx.program
             /\ ctx'.obs_reports = ctx.obs_reports
             /\ ctx'.loading_successful = ctx.loading_successful
             /\ ctx'.fsm_next = ctx.fsm_next]_vars
    /\ [][pc = "halted" => UNCHANGED vars]_vars

C16_Witness ==
    /\ ctx.obs_overrun
    /\ pc = "halted"
    /\ ctx.obs_nCmd = 0
    /\ Len(ctx.obs_frames) = MaxFrames

\* C17: from the entry of an upload until its exit handler has run, no
\* seek and no update acts on the position: it stays unprimed.
C17_NoPlaybackDuringUpload ==
    UploadOpen(ctx) => ctx.pos = -1

\* The playback is primed and this fsm.update() runs the Running state
RunningUpdate ==
    /\ pc = "fsm"
    /\ ~ctx.needToTriggerEnter
    /\ ctx.fsm_current = "Running" /\ ctx.fsm_next = "Running"
    /\ ctx.pos # -1

\* C18: an update of a primed playback at position i, activated at t: with
\* now - t >= duration(i) the position becomes (i + 1) mod line_count, the
\* line is activated and now is the new activation time; with
\* now - t < duration(i) position, activation time and valves are unchanged.
C18_UpdateAdvancesOrHolds ==
    [][RunningUpdate =>
          IF now - ctx.tick >= ctx.program[ctx.pos + 1].duration
          THEN /\ ctx'.pos = (ctx.pos + 1) % Len(ctx.program)
               /\ ctx'.tick = now
               /\ ctx'.masks = unpack_set(ctx'.program[ctx'.pos + 1].packed)
          ELSE /\ ctx'.pos = ctx.pos
               /\ ctx'.tick = ctx.tick
               /\ ctx'.masks = ctx.masks]_vars

\* An update wrapped a program of two lines from its last line to line 0
C18_Witness ==
    /\ ctx.fsm_current = "Running"
    /\ ctx.obs_upd = "wrap"
    /\ Len(ctx.program) = 2
    /\ ctx.pos = 0
    /\ ctx.tick = now

\* C19: when an upload reports success, the store holds the frames
\* f_1..f_N received in that upload: line i has the duration and the points
\* of frame i.
C19_StoredInArrivalOrder ==
    [][(/\ ctx'.obs_nBin = ctx.obs_nBin + 1
        /\ ctx'.obs_frames = ctx.obs_frames
        /\ ctx'.obs_report = "success")
       => StoredAsReceived(ctx')]_vars

\* C20: in one iteration of the control loop at most one text command and at
\* most one binary frame are taken from the listeners.
C20_OneDrainPerIteration ==
    ctx.obs_nText <= 1 /\ ctx.obs_nBin <= 1

(***************************************************************************)
(* Claims on the deadline, the frame of the commands and the Off state     *)
(***************************************************************************)
\* C21: no upload ends Succeeded in an update made when the time since the
\* upload's entry exceeds the deadline: the update that consumes the
\* end-of-program frame with a matching count then gives the time-out
\* report, not success.
C21_NoLateSuccess ==
    [][(/\ pc = "fsm"
        /\ UploadOpen(ctx)
        /\ ctx.fsm_next = "Uploading"
        /\ ctx.loading_program
        /\ timeInCurrentState(ctx, now) > LOADING_TIMEOUT)
       => (/\ ~ctx'.loading_successful
           /\ ctx'.obs_report # "success")]_vars

\* C22: while the controller is in the Running state no command handled by
\* the dispatcher changes the store: the name, the number of lines and every
\* stored line stay as they are.
C22_StoreFixedWhileRunning ==
    [][(/\ pc = "cmd"
        /\ ~ctx.needToTriggerEnter
        /\ ctx.fsm_current = "Running"
        /\ ctx.fsm_next = "Running")
       => (/\ ctx'.program = ctx.program
           /\ ctx'.name = ctx.name)]_vars

\* C23: the safety override is off at start-up; `override_safety` sets it,
\* `restore_safety` clears it, and no other step (any other command, any
\* update of the state machine with its exit and enter handlers, the safety
\* section) changes it.
C23_OverrideFrame ==
    /\ ~ctx.override_pump_safety
    /\ [][/\ CmdOverrideSafety => ctx'.override_pump_safety
          /\ CmdRestoreSafety => ~ctx'.override_pump_safety
          /\ ~(CmdOverrideSafety \/ CmdRestoreSafety) =>
                ctx'.override_pump_safety = ctx.override_pump_safety]_vars

\* The override is on after a failed upload has installed the fall-back and
\* the controller has come to Off
C23_Witness ==
    /\ ctx.override_pump_safety
    /\ ctx.obs_nInstall = 1
    /\ ctx.obs_nExt = 1
    /\ ctx.fsm_current = "Off"
    /\ ctx.masks = {}

\* C25: when the exit handler of an upload has run, the store holds at
\* least one line.
C25_ExitLeavesALine ==
    ctx.obs_nExt >= 1 => ctx.obs_exit_N_lines >= 1

\* C26: whenever the controller is in the Off state (its enter handler has
\* run) every valve is closed, and with the override off the pump is not
\* allowed to run at the end of the safety section.
C26_OffMeansClosed ==
    (ctx.fsm_current = "Off" /\ ~ctx.needToTriggerEnter) =>
        /\ ctx.masks = {}
        /\ (pc = "cmd" /\ ~ctx.override_pump_safety) =>
              ~ctx.safety__allow_jetting_pump_to_run

(***************************************************************************)
(* The point codec and the packing of a line on their own: one point and   *)
(* one line are drawn, encoded or packed, and decoded or unpacked again.   *)
(***************************************************************************)
\* A line that names every point of the grid, row by row
GridLine ==
    [i \in 1..(NUMEL_PCS_AXIS * NUMEL_PCS_AXIS) |->
        P(((i - 1) % NUMEL_PCS_AXIS) + PCS_X_MIN,
          ((i - 1) \div NUMEL_PCS_AXIS) + PCS_Y_MIN)]

CodecLines ==
    {[duration |-> 0, points |-> <<P_NULL>>],
     [duration |-> UINT16 - 1,
      points |-> <<P(PCS_X_MIN, PCS_Y_MIN), P(PCS_X_MAX, PCS_Y_MAX), P(0, 0),
                   P_NULL>>],
     [duration |-> 500,
      points |-> <<P(PCS_X_MIN, 3), P(PCS_X_MAX, 3), P(0, 3), P_NULL>>],
     [duration |-> 300, points |-> <<P(1, 1), P(2, 2), P_NULL>>],
     [duration |-> 1, points |-> GridLine \o <<P_NULL>>],
     FailSafeLine}

\* The points of a line: those in front of its null sentinel
LinePoints(line) == {line.points[i] : i \in 1..NumPoints(line.points)}

InitCodec ==
    /\ now = 0
    /\ pc = "codec"
    /\ \E p \in PCS, line \in CodecLines :
          /\ p = P(0, 0) \/ line = FailSafeLine
          /\ ctx = [ctx0(<<>>) EXCEPT !.obs_p = p, !.obs_line = line]

\* The host encodes the point into the third byte of a frame
CodecEncode ==
    /\ pc = "codec"
    /\ ctx' = [ctx EXCEPT !.bin_buf =
                  receive(@, <<ctx.obs_line.duration \div 256,
                               ctx.obs_line.duration % 256,
                               pack_into_byte(ctx.obs_p)>>)]
    /\ pc' = "encoded"
    /\ UNCHANGED now

\* The frame is parsed and its line stored
CodecDecode ==
    /\ pc = "encoded"
    /\ ctx' = add_line(ctx, ParseLine(ctx.bin_buf, 3))
    /\ pc' = "decoded"
    /\ UNCHANGED now

CodecPack ==
    /\ pc = "codec"
    /\ ctx' = add_line(ctx, ctx.obs_line)
    /\ pc' = "packed"
    /\ UNCHANGED now

CodecUnpack ==
    /\ pc = "packed"
    /\ ctx' = activate(ctx, 0, now)
    /\ pc' = "unpacked"
    /\ UNCHANGED now

NextCodec ==
    \/ CodecEncode
    \/ CodecDecode
    \/ CodecPack
    \/ CodecUnpack

SpecCodec == InitCodec /\ [][NextCodec]_vars

\* C11: for every point p of the axis range, the byte that encodes p (x
\* biased in the high nibble, y biased in the low nibble) decodes to p: the
\* frame that carries the byte is stored as a line with the one point p.
C11_RoundTrip ==
    /\ pc = "encoded" => unpack_byte(ctx.bin_buf[3]) = ctx.obs_p
    /\ pc = "decoded" => unpack_set(ctx.program[1].packed) = {ctx.obs_p}

C11_Witness ==
    /\ pc = "decoded"
    /\ ctx.obs_p = P(PCS_X_MAX, PCS_Y_MIN)
    /\ ctx.bin_buf[3] = 16 * (NUMEL_PCS_AXIS - 1)
    /\ unpack_set(ctx.program[1].packed) = {P(PCS_X_MAX, PCS_Y_MIN)}

\* C12: for every line of unique points of the grid that ends with the null
\* sentinel, the packed line unpacks to exactly the points of the line, and
\* the duration stored with it is the duration of the line.
C12_PackUnpack ==
    /\ pc \in {"packed", "unpacked"} =>
          /\ ctx.program[1].duration = ctx.obs_line.duration
          /\ unpack_set(ctx.program[1].packed) = LinePoints(ctx.obs_line)
    /\ pc = "unpacked" => ctx.masks = LinePoints(ctx.obs_line)

C12_Witness ==
    /\ pc = "unpacked"
    /\ ctx.obs_line.duration = 500
    /\ ctx.masks = {P(PCS_X_MIN, 3), P(PCS_X_MAX, 3), P(0, 3)}

(***************************************************************************)
(* The store and the playback on their own: frames, seeks, updates and     *)
(* preset loads in any order, on a store that is empty, holds the preset   *)
(* or is one line short of MAX_LINES.                                      *)
(***************************************************************************)
FillLine == [duration |-> 1000, packed |-> pack(<<P(0, 1), P_NULL>>)]
AlmostFull == [i \in 1..(MAX_LINES - 1) |-> FillLine]
PMPrograms == {<<>>, Preset0, AlmostFull}

PMSeekTokens == SeekTokens \cup {T_goto5000, T_goto5001, T_goto65536}

\* The single steps ',' and '.' are taken on the first two and on the last
\* two lines of the program
NearAnEnd(c) ==
    c.pos <= 1 \/ c.pos >= Len(c.program) - 2

\* The handler of the Uploading state is at stage 2, the dispatcher is on
InitPM ==
    /\ now = 0
    /\ pc = "pm"
    /\ \E program \in PMPrograms :
          ctx = [ctx0(program) EXCEPT !.loading_stage = 2]

\* The clock of the bench makes one step
PMTick ==
    /\ pc # "halted"
    /\ now < ClockStep
    /\ now' = now + ClockStep
    /\ UNCHANGED <<pc, ctx>>

\* A line frame is received
PMFrame ==
    /\ pc # "halted"
    /\ Len(ctx.obs_frames) < MaxFrames
    /\ ctx' = [UploadStage2(ctx, F_500, now) EXCEPT !.obs_cmd = None]
    /\ pc' = "pm"
    /\ UNCHANGED now

\* ',' or '.' or goto <n>; obs_cmd is the command of the last step, if it
\* was a seek
PMSeek ==
    /\ pc # "halted"
    /\ \E tok \in PMSeekTokens :
          /\ tok \in {T_comma, T_dot} => NearAnEnd(ctx)
          /\ ctx' = [Command(ctx, tok, now) EXCEPT !.obs_cmd = tok]
    /\ pc' = IF ctx'.halted THEN "halted" ELSE "pm"
    /\ UNCHANGED now

PMPreset ==
    /\ pc # "halted"
    /\ ctx' = [Command(ctx, T_preset, now) EXCEPT !.obs_cmd = None]
    /\ pc' = "pm"
    /\ UNCHANGED now

PMUpdate ==
    /\ pc # "halted"
    /\ ctx' = [FSM_fun_running__upd(ctx, now) EXCEPT !.obs_cmd = None]
    /\ pc' = IF ctx'.halted THEN "halted" ELSE "pm"
    /\ UNCHANGED now

NextPM ==
    \/ PMTick
    \/ PMFrame
    \/ PMSeek
    \/ PMPreset
    \/ PMUpdate

SpecPM == InitPM /\ [][NextPM]_vars

\* C14: the manual seeks neither wrap nor leave the program.  On a store of
\* n >= 1 lines: goto <k> (the host counts from 1, k < 2^16) leaves the
\* position at min(max(k, 1) - 1, n - 1); ',' at position 0 (or unprimed)
\* leaves it at 0 and '.' at position n - 1 leaves it at n - 1; otherwise
\* ',' and '.' move the position by exactly one.
C14_SeeksClamp ==
    [][(ctx'.obs_cmd # None /\ now' = now /\ Len(ctx.program) >= 1) =>
          LET n == Len(ctx.program)
              tok == ctx'.obs_cmd
              k == parseIntInString(tok, 4)
          IN  /\ ctx'.program = ctx.program
              /\ tok = T_comma =>
                    ctx'.pos = IF ctx.pos <= 0 THEN 0 ELSE ctx.pos - 1
              /\ tok = T_dot =>
                    ctx'.pos = IF ctx.pos = n - 1 THEN n - 1 ELSE ctx.pos + 1
              /\ (HasPrefix(tok, T_goto) /\ k < UINT16) =>
                    ctx'.pos = min(max(k, 1) - 1, n - 1)]_vars

\* goto 5001 on the full store: the position is the last line
C14_Witness ==
    /\ pc = "pm"
    /\ ctx.obs_cmd = T_goto5001
    /\ Len(ctx.program) = MAX_LINES
    /\ ctx.pos = MAX_LINES - 1

\* C15: whatever the frames, seeks, updates and preset loads, the store
\* holds at most MAX_LINES lines and a primed position is the index of a
\* stored line.
C15_StoreBounds ==
    /\ Len(ctx.program) <= MAX_LINES
    /\ ctx.pos # -1 => (0 <= ctx.pos /\ ctx.pos < Len(ctx.program))

\* The store is full, a further frame was received, the position is the
\* last line
C15_Witness ==
    /\ Len(ctx.program) = MAX_LINES
    /\ Len(ctx.obs_frames) = MaxFrames
    /\ ctx.obs_nFrames = MaxFrames
    /\ ctx.pos = MAX_LINES - 1

(***************************************************************************)
(* The control loop running for ever.  millis() has no bound: once the     *)
(* clock of the model has reached MaxTime, a further step of ClockStep     *)
(* moves every recorded time back by ClockStep instead, and a recorded     *)
(* time that is MaxTime or more ago stays at 0.  Every period, duration    *)
(* and deadline the code compares an elapsed time with is below MaxTime,   *)
(* so every comparison comes out as it does on the unbounded clock.        *)
(* loop() is called again and again and millis() keeps advancing.          *)
(***************************************************************************)
Rebase(ts) == IF ts = -1 THEN -1 ELSE max(ts - ClockStep, 0)

TickLive ==
    /\ pc = "cmd"
    /\ IF now + ClockStep <= MaxTime
       THEN now' = now + ClockStep /\ UNCHANGED ctx
       ELSE /\ UNCHANGED now
            /\ ctx' = [ctx EXCEPT !.stateChangeTime = Rebase(@),
                                  !.tick = Rebase(@),
                                  !.cmd_prev = Rebase(@),
                                  !.pulse_prev = Rebase(@)]
    /\ UNCHANGED pc

\* What the serial port has reported and what the handlers have done is not
\* followed here: no handler reads it
Observations ==
    {"obs_report", "obs_sentN", "obs_nName", "obs_nFrames", "obs_nEop",
     "obs_nTimeout", "obs_nCmd", "obs_nExt", "obs_nPrime", "obs_nInstall",
     "obs_exit_N_lines", "obs_stop", "obs_entered", "obs_reports",
     "obs_eopMismatch", "obs_frames", "obs_overrun", "obs_nText", "obs_nBin",
     "obs_upd", "obs_p", "obs_line", "obs_cmd"}

Forget(c) ==
    [k \in DOMAIN c |-> IF k \in Observations THEN ctx0(<<>>)[k] ELSE c[k]]

\* The commands a host sends in the run of an upload and right after it
LiveTokens == {T_upload, T_play, T_stop, T_comma, T_preset, T_Test}

\* The dispatcher handles no command
LiveDispatchNone ==
    /\ pc = "cmd"
    /\ ctx' = Forget(Dispatch(ctx, now, None))
    /\ pc' = "fsm"
    /\ UNCHANGED now

\* The dispatcher handles one of the host's commands
LiveCommand ==
    /\ pc = "cmd"
    /\ DispatcherPolls(ctx, now)
    /\ \E tok \in LiveTokens : ctx' = Forget(Dispatch(ctx, now, tok))
    /\ pc' = IF ctx'.halted THEN "halted" ELSE "fsm"
    /\ UNCHANGED now

\* fsm.update() while the listeners have nothing
LiveFsmIdle ==
    /\ pc = "fsm"
    /\ ctx' = Forget(fsm_update(ctx, now, None, None, NoFrame))
    /\ pc' = IF ctx'.halted THEN "halted" ELSE "safety"
    /\ UNCHANGED now

\* fsm.update() with what a host delivers to the upload handler: a name, a
\* count of 0, of 2 or above the capacity, or a text that is no number; a
\* line frame, a frame of one byte or the end-of-program frame; or an
\* overrun of the binary listener
LiveFsmInput ==
    /\ pc = "fsm"
    /\ \E a \in {T_Test, None}, b \in {T_0, T_2, T_5001, T_stop, None},
          f \in BinInputs \cup {NoFrame, Overrun} :
          /\ a # None \/ b # None \/ f # NoFrame
          /\ IF f = Overrun
             THEN /\ a = None /\ b = None
                  /\ ~ctx.needToTriggerEnter
                  /\ ctx.fsm_current = "Uploading"
                  /\ ctx.fsm_next = "Uploading"
                  /\ ctx.loading_stage = 2
             ELSE Polled(ctx, now, a, b, f)
          /\ ctx' = Forget(fsm_update(ctx, now, a, b, f))
    /\ pc' = IF ctx'.halted THEN "halted" ELSE "safety"
    /\ UNCHANGED now

LiveSafetyPulses ==
    /\ pc = "safety"
    /\ ctx' = Forget(SafetyPulse(SafetyCheck(ctx), now))
    /\ pc' = "cmd"
    /\ UNCHANGED now

NextLive ==
    \/ TickLive
    \/ LiveDispatchNone
    \/ LiveCommand
    \/ LiveFsmIdle
    \/ LiveFsmInput
    \/ LiveSafetyPulses

\* loop() goes on from one section to the next: every step of loop() moves
\* pc, and a section can always be run with nothing from the host
LoopAdvances ==
    /\ pc # "halted"
    /\ pc' \in {"cmd", "fsm", "safety", "halted"} \ {pc}

\* loop() is called again and again, and millis() advances
SpecLive ==
    Init /\ [][NextLive]_vars /\ WF_pc(LoopAdvances) /\ SF_vars(TickLive)

\* C24: every upload that is entered leaves the Uploading state (its exit
\* handler runs), unless the controller halts.
C24_UploadExits ==
    UploadOpen(ctx) ~> (~UploadOpen(ctx) \/ ctx.halted)

(***************************************************************************)
(* The decoding of one line frame, index by index: which bytes of bin_buf  *)
(* are read and which slots of the working Line are written.               *)
(***************************************************************************)
BIN_BUF_LEN == 229
MAX_POINTS_PER_LINE == NUMEL_PCS_AXIS * NUMEL_PCS_AXIS

\* The slots of a Line: one per position of the grid and one for the end
\* sentinel
LineSlots == 0..MAX_POINTS_PER_LINE

\* A non-empty frame of data_len bytes is in bin_buf[0 .. data_len - 1]
InitDecode ==
    /\ now = 0
    /\ pc = "frame"
    /\ \E data_len \in 1..BIN_BUF_LEN :
          ctx = [data_len |-> data_len, idx |-> 2, idx_P |-> 0,
                 read |-> {}, written |-> {}]

\* line.duration = bin_buf[0] << 8 | bin_buf[1]
DecodeDuration ==
    /\ pc = "frame"
    /\ ctx' = [ctx EXCEPT !.read = @ \cup {0, 1}]
    /\ pc' = "points"
    /\ UNCHANGED now

\* line.points[idx_P].unpack_byte(bin_buf[idx])
DecodePoint ==
    /\ pc = "points"
    /\ ctx.idx < ctx.data_len
    /\ ctx' = [ctx EXCEPT !.read = @ \cup {ctx.idx},
                          !.written = @ \cup {ctx.idx_P},
                          !.idx = @ + 1, !.idx_P = @ + 1]
    /\ UNCHANGED <<now, pc>>

\* line.points[idx_P].set_null()
DecodeSentinel ==
    /\ pc = "points"
    /\ ~(ctx.idx < ctx.data_len)
    /\ ctx' = [ctx EXCEPT !.written = @ \cup {ctx.idx_P}]
    /\ pc' = "decoded"
    /\ UNCHANGED now

NextDecode ==
    \/ DecodeDuration
    \/ DecodePoint
    \/ DecodeSentinel

SpecDecode == InitDecode /\ [][NextDecode]_vars

\* C27: the decoding of a non-empty frame of 1 .. BIN_BUF_LEN bytes writes
\* only slots of the working Line and reads only bytes of the frame; when it
\* is done it has written max(data_len - 2, 0) points and the sentinel
\* behind them.
C27_DecodeInBounds ==
    /\ ctx.written \subseteq LineSlots
    /\ ctx.read \subseteq 0..(ctx.data_len - 1)
    /\ pc = "decoded" => ctx.written = 0..max(ctx.data_len - 2, 0)

====
